---- MODULE Spec2Model ----
(***************************************************************************)
(* Verification model of two subsystems of the repository:                 *)
(*   - the achievement engine (budget_allocation_mcp/src/achievements):    *)
(*     AchievementEngine.process_event -> ProgressTracker.update_progress  *)
(*     -> criteria evaluation -> RewardRegistry.process_rewards ->         *)
(*     NotificationManager;                                                *)
(*   - the Google Ads backend (Allervie Front-Back APIs/backend): the      *)
(*     data routes of app.py / extended_routes.py, the fallback functions  *)
(*     of google_ads_fallback.py, the OAuth routes of app.py, and the      *)
(*     token scripts enhanced_auto_refresh.py and smart_token_manager.py.  *)
(* Spec is the engine, SpecSummary the engine with its summary requests,   *)
(* SpecAsync two interleaved process_event coroutines, SpecAds the data    *)
(* routes, SpecAuth the OAuth routes, SpecTokens the token scripts.        *)
(* Python floats are modelled by integers; the inputs are chosen so that   *)
(* every division is exact.                                                *)
(***************************************************************************)
EXTENDS Integers, Sequences, FiniteSets, TLC

VARIABLES
    \* ---- achievement engine ----
    achievements,       \* AchievementEngine.achievements: ids in dict order
    unlocked_count,     \* Achievement.unlocked_count of each registered id
    user_achievements,  \* ProgressTracker.user_achievements[user][ach_id]
    user_streaks,       \* BudgetStreakCriteria.user_streaks per criteria id
    user_points,        \* PointsRewardHandler.user_points
    user_badges,        \* BadgeRewardHandler.user_badges
    user_features,      \* FeatureUnlockRewardHandler.user_features
    notifier,           \* AchievementEngine.notification_manager
    clock,              \* datetime.now(), in seconds
    eventCount,         \* number of process_event calls made so far
    rewardCalls,        \* RewardRegistry.process_rewards invocations per (user, id)
    progress_file,      \* content of achievements/progress.json
    achievements_file,  \* content of achievements/achievements.json
    lastCall,           \* trace of the most recent engine call
    tasks               \* the process_event coroutines in flight, by task

VARIABLES
    ALLOW_MOCK_DATA,        \* config.ALLOW_MOCK_DATA
    USE_REAL_ADS_CLIENT,    \* config.USE_REAL_ADS_CLIENT as imported by extended_routes
    ENVIRONMENT,            \* config.ENVIRONMENT
    ALLOW_MOCK_AUTH,        \* config.ALLOW_MOCK_AUTH
    session,                \* the Flask session of the one browser
    request,                \* the inputs of the last call of the Ads backend
    response                \* what that call returned

adsVars == <<ALLOW_MOCK_DATA, USE_REAL_ADS_CLIENT, ENVIRONMENT, ALLOW_MOCK_AUTH,
             session, request, response>>

VARIABLES
    TOKENS,                 \* app.TOKENS: the user ids that have a token stored
    token_file,             \* credentials/token.json: the credentials in it
    google_ads_yaml,        \* credentials/google-ads.yaml: its refresh_token,
                            \* "empty" without one, "absent" without the file
    authCall                \* the trace of the last call of an authentication route

authVars == <<TOKENS, token_file, google_ads_yaml, authCall>>

VARIABLES
    token_status,           \* credentials/.token_status.json
    token_manager,          \* smart_token_manager: where verify_ads_token stands,
                            \* its callback server and its globals
    refreshCall             \* the trace of the last refresh_token_if_needed call

tokenVars == <<token_status, token_manager, refreshCall>>

achVars == <<achievements, unlocked_count, user_achievements, user_streaks,
             user_points, user_badges, user_features, notifier, clock,
             eventCount, rewardCalls, progress_file, achievements_file, lastCall,
            tasks>>

(***************************************************************************)
(* Bounds of the model.                                                    *)
(***************************************************************************)
MaxEvents == 2      \* process_event calls in one behaviour
MaxTicks == 1       \* clock steps in one behaviour, each of JustUnlockedWindow seconds
MaxFailedChecks == 2    \* the failed checks .token_status.json counts up to

Users == {"u1"}

\* the users of the runs that look at two users' records side by side
AllUsers == Users \cup {"u2"}

NoneTime == -1          \* first_achieved_at = None
Missing == "missing"    \* key absent from the event data (dict.get default applies)
Malformed == "malformed" \* a value of the wrong type for the criteria that reads it
MissingNum == -1        \* a numeric key absent from the event data
MalformedNum == -2      \* a numeric key holding a value of the wrong type

(***************************************************************************)
(* Achievement definitions.                                                *)
(***************************************************************************)
Reward(t, v) == [type |-> t, value |-> v]

\* a representative part of AchievementEngine._create_default_achievements
DefaultAchievements ==
    [ budget_master_bronze |->
        [criteria_id |-> "budget_streak_1", progress_type |-> "streak",
         target_value |-> 1, hidden |-> FALSE,
         rewards |-> <<Reward("badge", "budget_novice"), Reward("points", 100)>>],
      budget_master_silver |->
        [criteria_id |-> "budget_streak_3", progress_type |-> "streak",
         target_value |-> 3, hidden |-> FALSE,
         rewards |-> <<Reward("badge", "budget_apprentice"), Reward("points", 250)>>],
      savings_gold |->
        [criteria_id |-> "savings_goal_10000", progress_type |-> "percentage",
         target_value |-> 100, hidden |-> FALSE,
         rewards |-> <<Reward("badge", "saver_expert"), Reward("points", 600),
                       Reward("feature", "investment_tracking")>>],
      transaction_bronze |->
        [criteria_id |-> "transaction_count_10", progress_type |-> "counter",
         target_value |-> 10, hidden |-> FALSE,
         rewards |-> <<Reward("badge", "transaction_tracker"), Reward("points", 50)>>] ]

DefaultOrder ==
    <<"budget_master_bronze", "budget_master_silver", "savings_gold", "transaction_bronze">>

\* achievements a caller may pass to register_achievement
Registerable ==
    [ account_linked |->
        [criteria_id |-> "transaction_count_10", progress_type |-> "boolean",
         target_value |-> 1, hidden |-> TRUE,
         rewards |-> <<Reward("theme", "dark"), Reward("discount", 10)>>],
      orphan |->
        [criteria_id |-> "no_such_criteria", progress_type |-> "counter",
         target_value |-> 1, hidden |-> FALSE,
         rewards |-> <<>>] ]

AchIds == DOMAIN DefaultAchievements \cup DOMAIN Registerable

AchDef(a) == IF a \in DOMAIN DefaultAchievements THEN DefaultAchievements[a]
             ELSE Registerable[a]

(***************************************************************************)
(* Dictionaries: partial functions with Python's get / item assignment.    *)
(***************************************************************************)
EmptyMap == [x \in {} |-> 0]

Get(f, k, d) == IF k \in DOMAIN f THEN f[k] ELSE d

Put(f, k, v) == [x \in DOMAIN f \cup {k} |-> IF x = k THEN v ELSE f[x]]

Min(x, y) == IF x <= y THEN x ELSE y

\* evaluates v once and applies F to the value
LetIn(v, F(_)) == CHOOSE y \in {F(x) : x \in {v}} : TRUE

(***************************************************************************)
(* Criteria (criteria.py).  register_default_criteria registers exactly    *)
(* these ids; "budget_streak_1", which the first default achievement       *)
(* names, is not among them.                                               *)
(***************************************************************************)
StreakCriteria == {"budget_streak_3", "budget_streak_6", "budget_streak_12"}

SavingsTarget ==
    [savings_goal_1000 |-> 1000, savings_goal_5000 |-> 5000, savings_goal_10000 |-> 10000]

CountCriteria == {"transaction_count_10", "transaction_count_100", "transaction_count_1000"}

RegisteredCriteria ==
    {"budget_completion"} \cup StreakCriteria \cup DOMAIN SavingsTarget \cup CountCriteria

\* CriteriaRegistry.get: the id when registered, None otherwise
CriteriaRegistryGet(criteria_id) ==
    IF criteria_id \in RegisteredCriteria THEN criteria_id ELSE "None"

\* BudgetCompletionCriteria.evaluate: percentage of budgets under their limit
\* ("over" stands for one budget of two over its limit)
BudgetCompletionEvaluate(context) ==
    CASE context.budgets = Missing   -> [value |-> 0, error |-> FALSE]
      [] context.budgets = Malformed -> [value |-> 0, error |-> TRUE]
      [] context.budgets = "under"   -> [value |-> 100, error |-> FALSE]
      [] OTHER                       -> [value |-> 50, error |-> FALSE]

\* BudgetStreakCriteria.evaluate: the value returned and the streak table after
BudgetStreakEvaluate(streaks, user_id, context) ==
    LET cur == Get(streaks, user_id, 0) IN
    IF context.budgets = Missing \/ context.current_period = Missing
    THEN [value |-> cur, streaks |-> streaks, error |-> FALSE]
    ELSE IF context.last_checked_period = context.current_period
    THEN [value |-> cur, streaks |-> streaks, error |-> FALSE]
    ELSE IF context.budgets = Malformed
    THEN [value |-> cur, streaks |-> streaks, error |-> TRUE]      \* except branch
    ELSE IF context.budgets = "under"
    THEN [value |-> cur + 1, streaks |-> Put(streaks, user_id, cur + 1), error |-> FALSE]
    ELSE [value |-> 0, streaks |-> Put(streaks, user_id, 0), error |-> FALSE]

\* SavingsGoalCriteria.evaluate
SavingsGoalEvaluate(target_amount, context) ==
    LET total_savings == IF context.total_savings = MissingNum THEN 0
                         ELSE context.total_savings IN
    IF context.total_savings = MalformedNum
    THEN [value |-> 0, error |-> TRUE]                  \* except branch
    ELSE [value |-> Min(100, (total_savings * 100) \div target_amount),
          error |-> FALSE]

\* TransactionCountCriteria.evaluate
TransactionCountEvaluate(context) ==
    CASE context.transactions = MissingNum   -> [value |-> 0, error |-> FALSE]
      [] context.transactions = MalformedNum -> [value |-> 0, error |-> TRUE]
      [] OTHER -> [value |-> context.transactions, error |-> FALSE]

\* the branches of BudgetStreakCriteria.evaluate that find nothing to evaluate
\* and answer with the streak as it stands: the criteria's "no update"
NothingToEvaluate(criteria_id, context) ==
    /\ criteria_id \in StreakCriteria
    /\ \/ context.budgets = Missing
       \/ context.current_period = Missing
       \/ context.last_checked_period = context.current_period

\* criteria.evaluate(user_id, context), dispatched on the criteria class
CriteriaEvaluate(criteria_id, all_streaks, user_id, context) ==
    IF criteria_id \in StreakCriteria
    THEN LET r == BudgetStreakEvaluate(all_streaks[criteria_id], user_id, context) IN
         [value |-> r.value, error |-> r.error,
          streaks |-> [all_streaks EXCEPT ![criteria_id] = r.streaks]]
    ELSE LET r == IF criteria_id \in DOMAIN SavingsTarget
                  THEN SavingsGoalEvaluate(SavingsTarget[criteria_id], context)
                  ELSE IF criteria_id \in CountCriteria
                  THEN TransactionCountEvaluate(context)
                  ELSE BudgetCompletionEvaluate(context)
         IN [value |-> r.value, error |-> r.error, streaks |-> all_streaks]

(***************************************************************************)
(* Progress tracking (progress.py).  The working state S of one engine     *)
(* call collects the objects the call mutates and the trace of the call.   *)
(***************************************************************************)
\* an unlock test that demands the target be exceeded
TargetExceeded(current_value, target_value) == current_value > target_value

\* the unlock test of update_progress
TargetReached(current_value, target_value) == current_value >= target_value

NewUserAchievement ==
    [current_value |-> 0, unlocked |-> FALSE, first_achieved_at |-> NoneTime,
     progress_history |-> <<>>]

\* ProgressTracker.update_progress; ret is "None" or "record"
update_progress(S, user_id, a, context, now) ==
    LET ach   == AchDef(a)
        byUser == Get(S.ua, user_id, EmptyMap)
        rec   == Get(byUser, a, NewUserAchievement)
        ua1   == Put(S.ua, user_id, Put(byUser, a, rec))
        S1    == [S EXCEPT !.ua = ua1, !.evaluated = @ \cup {a}]
        criteria == CriteriaRegistryGet(ach.criteria_id)
    IN
    IF rec.unlocked /\ S.ucount[a] >= 1
    THEN [S |-> S1, ret |-> "record"]
    ELSE IF criteria = "None"
    THEN [S |-> [S1 EXCEPT !.errors = @ \cup {<<a, "criteria not found">>}],
          ret |-> "None"]
    ELSE
      LET ev == CriteriaEvaluate(criteria, S.streaks, user_id, context)
          current_value == ev.value
          target_reached == TargetReached(current_value, ach.target_value)
          unlockNow == target_reached /\ ~rec.unlocked
          rec1 == [rec EXCEPT
                     !.progress_history =
                         Append(@, [date |-> now, value |-> current_value]),
                     !.current_value = current_value,
                     !.unlocked = IF unlockNow THEN TRUE ELSE @,
                     !.first_achieved_at = IF unlockNow THEN now ELSE @]
          ua2 == [ua1 EXCEPT ![user_id][a] = rec1]
      IN [S |-> [S1 EXCEPT
                   !.ua = ua2,
                   !.streaks = ev.streaks,
                   !.ucount[a] = IF unlockNow THEN @ + 1 ELSE @,
                   !.values = Put(@, a, current_value),
                   !.errors = IF ev.error THEN @ \cup {<<a, "evaluating criteria">>}
                              ELSE @,
                   !.no_update = IF NothingToEvaluate(criteria, context)
                                 THEN @ \cup {a} ELSE @,
                   !.progress_file = ua2],
          ret |-> "record"]

(***************************************************************************)
(* Rewards (rewards.py).                                                   *)
(***************************************************************************)
\* a registration that leaves out the feature handler
HandlersWithoutFeature == {"points", "badge"}

\* register_default_reward_handlers: the reward types that have a handler
RegisteredHandlers == {"points", "badge", "feature"}

\* RewardRegistry.get
RewardRegistryGet(reward_type) ==
    IF reward_type \in RegisteredHandlers THEN reward_type ELSE "None"

\* handler.process_reward of the three handler classes: the handler state
\* after the call and the success flag
process_reward(S, handler, user_id, reward) ==
    CASE handler = "points" ->
           IF reward.value \notin Int \/ reward.value <= 0
           THEN [S |-> S, success |-> FALSE]
           ELSE [S |-> [S EXCEPT !.points =
                           Put(@, user_id, Get(@, user_id, 0) + reward.value)],
                 success |-> TRUE]
      [] handler = "badge" ->
           IF reward.value = ""
           THEN [S |-> S, success |-> FALSE]
           ELSE [S |-> [S EXCEPT !.badges =
                           Put(@, user_id, Get(@, user_id, {}) \cup {reward.value})],
                 success |-> TRUE]
      [] OTHER ->
           IF reward.value = ""
           THEN [S |-> S, success |-> FALSE]
           ELSE [S |-> [S EXCEPT !.features =
                           Put(@, user_id, Get(@, user_id, {}) \cup {reward.value})],
                 success |-> TRUE]

\* the loop of RewardRegistry.process_rewards over achievement.rewards
RECURSIVE RewardLoop(_, _, _, _)
RewardLoop(S, results, user_id, rewards) ==
    IF rewards = <<>> THEN [S |-> S, results |-> results]
    ELSE
      LET reward == Head(rewards)
          handler == RewardRegistryGet(reward.type)
      IN
      IF handler = "None"
      THEN RewardLoop([S EXCEPT !.unhandled = @ \cup {reward.type}],
                      Put(results, reward.type, FALSE), user_id, Tail(rewards))
      ELSE LetIn(process_reward(S, handler, user_id, reward), LAMBDA r :
           RewardLoop(r.S, Put(results, reward.type, r.success), user_id, Tail(rewards)))

\* RewardRegistry.process_rewards
process_rewards(S, user_id, a) ==
    LetIn(RewardLoop(S, EmptyMap, user_id, AchDef(a).rewards), LAMBDA r :
    [r.S EXCEPT !.calls[user_id][a] = @ + 1,
                !.results = Put(@, a, r.results)])

(***************************************************************************)
(* Notifications (notifications/manager.py).  macosOk says whether         *)
(* _send_macos_notification succeeds; it raises otherwise.                 *)
(***************************************************************************)
\* a send_notification without its try/except: a failing channel raises
send_notification_uncaught(manager, macosOk) ==
    IF manager = "disabled" THEN "False"
    ELSE IF macosOk THEN "True"
    ELSE "raise"

\* NotificationManager.send_notification: "True", "False", or "raise" when an
\* exception leaves the method
send_notification(manager, macosOk) ==
    IF manager = "disabled" THEN "False"
    ELSE IF macosOk THEN "True"
    ELSE "False"                            \* the exception is caught and logged

\* NotificationManager.send_achievement_notification
send_achievement_notification(manager, macosOk) == send_notification(manager, macosOk)

(***************************************************************************)
(* The engine (engine.py).                                                 *)
(***************************************************************************)
JustUnlockedWindow == 60

HiddenEventTypes == {"system_check", "periodic_update"}

\* the body of the loop of process_event for one achievement
process_one(S, a, user_id, event_type, context, now, manager, macosOk) ==
    IF AchDef(a).hidden /\ event_type \notin HiddenEventTypes
    THEN [S EXCEPT !.skipped = @ \cup {a}]
    ELSE LetIn(update_progress(S, user_id, a, context, now), LAMBDA r :
      LET rec == r.S.ua[user_id][a]
          just_unlocked == /\ rec.first_achieved_at # NoneTime
                           /\ now - rec.first_achieved_at < JustUnlockedWindow
      IN
      IF r.ret = "record" /\ rec.unlocked /\ just_unlocked
      THEN LetIn(process_rewards(r.S, user_id, a), LAMBDA S2 :
           LET sent == IF manager = "None" THEN "True"
                       ELSE send_achievement_notification(manager, macosOk)
           IN
           IF sent = "raise"
           THEN [S2 EXCEPT !.raised = TRUE,
                           !.errors = @ \cup {<<a, "processing event">>}]
           ELSE [S2 EXCEPT
                   !.errors = IF manager # "None" /\ sent = "False"
                              THEN @ \cup {<<a, "sending notification">>} ELSE @,
                   !.unlocked = Append(@, a)])
      ELSE r.S)

\* the loop of process_event over self.achievements.values(); an exception
\* that reaches process_event ends the loop
RECURSIVE process_loop(_, _, _, _, _, _, _, _)
process_loop(S, ids, user_id, event_type, context, now, manager, macosOk) ==
    IF ids = <<>> \/ S.raised THEN S
    ELSE LetIn(
            process_one(S, Head(ids), user_id, event_type, context, now, manager, macosOk),
            LAMBDA S1 : process_loop(S1, Tail(ids), user_id, event_type, context,
                                     now, manager, macosOk))

\* the trace of a call
Trace(op, user_id, S, ret) ==
    [op |-> op, user_id |-> user_id, skipped |-> S.skipped,
     evaluated |-> S.evaluated, values |-> S.values, errors |-> S.errors,
     unhandled |-> S.unhandled, no_update |-> S.no_update,
     results |-> S.results, unlocked |-> S.unlocked, raised |-> S.raised,
     ret |-> ret]

\* the trace of a call that is not process_event
OpTrace(op, ret) ==
    [op |-> op, user_id |-> "None", skipped |-> {},
     evaluated |-> {}, values |-> EmptyMap, errors |-> {}, unhandled |-> {},
     no_update |-> {},
     results |-> EmptyMap, unlocked |-> <<>>, raised |-> FALSE, ret |-> ret]

\* the objects a call works on
CallState ==
    [ua |-> user_achievements, streaks |-> user_streaks, ucount |-> unlocked_count,
     points |-> user_points, badges |-> user_badges, features |-> user_features,
     calls |-> rewardCalls, progress_file |-> progress_file,
     skipped |-> {}, evaluated |-> {}, values |-> EmptyMap, errors |-> {},
     unhandled |-> {}, no_update |-> {}, results |-> EmptyMap, unlocked |-> <<>>,
     raised |-> FALSE]

(***************************************************************************)
(* Event data.                                                             *)
(***************************************************************************)
BaseContext ==
    [budgets |-> Missing, current_period |-> Missing, last_checked_period |-> Missing,
     total_savings |-> MissingNum, transactions |-> MissingNum]

Context(b, cur, last, savings, transactions) ==
    [budgets |-> b, current_period |-> cur, last_checked_period |-> last,
     total_savings |-> savings, transactions |-> transactions]

\* the event data the model feeds to process_event
Contexts ==
    { Context("under", "2025-02", "2025-01", 5000, 5),
      Context("under", "2025-02", "2025-01", 10000, MissingNum),
      Context("over", "2025-02", "2025-01", 10000, 10),
      Context("under", "2025-02", "2025-02", MissingNum, MissingNum),
      Context(Malformed, "2025-02", "2025-01", MalformedNum, MalformedNum),
      BaseContext }

EventTypes == {"budget_update", "periodic_update"}

\* two process_event coroutines on the event loop: the scheduler's periodic
\* update and a directly invoked event
TaskIds == {"t1", "t2"}

\* a coroutine: where it stands, its arguments and its local variables
IdleTask ==
    [pc |-> "idle", user_id |-> "None", event_type |-> "None",
     context |-> BaseContext, idx |-> 1, looked_up |-> NewUserAchievement,
     current_value |-> 0, unlocked |-> <<>>]

\* the achievement_id arguments the model passes to reset_achievement_progress
ResetTargets == {"budget_master_silver", "None"}

(***************************************************************************)
(* The Ads backend ("Allervie Front-Back APIs/backend").  The Google Ads   *)
(* API is the environment: each call meets one of ApiOutcomes.  A payload  *)
(* or response carries its kind and the metrics it holds, in place of the  *)
(* numbers: "real" came from the API, "mock" from random.*, "placeholder"  *)
(* is "N/A" or zero filling, "error" an error JSON.                        *)
(***************************************************************************)
ApiOutcomes ==
    {"ok",              \* the API answers with complete data
     "empty",           \* the API answers with no rows
     "malformed",       \* the API answers with rows that have no conversions, and
                        \* the performance dict lacks a required metric
     "api_error",       \* the query raises GoogleAdsException
     "no_client",       \* get_google_ads_client returns None
     "client_raises",   \* get_google_ads_client raises
     "import_error"}    \* the google-ads library is not installed

\* the Authorization header: absent, "Bearer mock-token-..." or another Bearer
AuthHeaders == {"none", "mock", "real"}

\* the start_date a caller hands over: absent, a date string, or (by the
\* routes /campaigns and /ad_groups) the client object
StartDates == {"None", "date"}

RequiredMetrics ==
    {"impressions", "clicks", "conversions", "cost", "conversionRate",
     "clickThroughRate", "costPerConversion"}

\* the ids a session's user_id takes: absent, the mock ids of mock_token and
\* of the dashboard routes, and the random ids the OAuth callback draws
MockTokenUser == "google-oauth2|123456789"

MockDashboardUser == "mock-user-123456789"

MockPageUsers == {"mock-user-1000"}

\* the refresh tokens Google hands out; "None" when the answer carries none
RefreshTokens == {"None", "r1"}

\* the access tokens the token endpoint hands out
Tokens == {"t0", "t1", "t2"}

\* a token from the endpoint is never the one already in place
FreshToken(old) == CHOOSE t \in Tokens \ {"t0"} : t # old

\* what stands under 'expiry' in token.json: no such key, a value that does
\* not parse as a date, or a date that is past, less than ten minutes ahead,
\* or further ahead
Expiries == {"missing", "unparsable", "expired", "expiring", "valid"}

NoTokenFile ==
    [exists |-> FALSE, token |-> "None", refresh_token |-> "None",
     expiry |-> "missing"]

\* a token.json left by an earlier authorization
OldTokenFile ==
    [exists |-> TRUE, token |-> "t0", refresh_token |-> "r0", expiry |-> "valid"]

\* .token_status.json before the first check
NoTokenStatus == [last_check |-> "None", failed_checks |-> 0]

\* verify_ads_token before it is called: pc is where the call stands, server
\* the state of the callback server, force, had_refresh_token and access the
\* facts should_refresh_token met, ret what verify_ads_token returned; n
\* changes with every call
IdleManager ==
    [n |-> 0, pc |-> "idle", server |-> "down", authorization_code |-> "None",
     server_closed |-> FALSE, url_opened |-> FALSE, force |-> FALSE,
     had_refresh_token |-> FALSE, access |-> "None", ret |-> "None"]

\* no call of refresh_token_if_needed yet; n changes with every call
NoRefreshCall == [n |-> 0, force |-> FALSE, steps |-> <<>>, ret |-> "None"]

\* what the token endpoint does with the code
Exchanges == {"ok", "scope_changed_ok", "scope_changed_fail", "fail"}

\* where login finds the OAuth client: client_secret.json, the environment
\* variables, nowhere, or a file that cannot be read as a client config
ClientSecrets == {"file", "env", "none", "unreadable"}

NoAuthCall ==
    [route |-> "None", mock |-> FALSE, code |-> "None", state |-> "None",
     exchange |-> "None", steps |-> <<>>]

OAuthUsers == {"google-oauth2|1", "google-oauth2|2"}

\* the state values flow.authorization_url draws
AuthStates == {"s1", "s2"}

NewSession ==
    [user_id |-> "None", use_real_ads_client |-> FALSE,
     client_config |-> FALSE, auth_state |-> "None"]

NoRequest == [api |-> "None", auth |-> "none", start_date |-> "None"]

Response(endpoint, status, kind, metrics) ==
    [endpoint |-> endpoint, status |-> status, kind |-> kind, metrics |-> metrics]

NoResponse == Response("None", 0, "None", {})

\* google_ads_client.get_google_ads_client: "client", "None" or "raise"
get_google_ads_client(api) ==
    CASE api = "no_client"     -> "None"
      [] api = "client_raises" -> "raise"
      [] api = "import_error"  -> "raise"
      [] OTHER                 -> "client"

\* the API calls whose search query succeeds
SuccessfulQueries == {"ok", "empty", "malformed"}

\* the totals get_ads_performance sums over the rows of the answer
ApiTotals(api) ==
    CASE api = "ok"        -> [impressions |-> 10, clicks |-> 2, conversions |-> 1]
      [] api = "malformed" -> [impressions |-> 10, clicks |-> 2, conversions |-> 0]
      [] OTHER             -> [impressions |-> 0, clicks |-> 0, conversions |-> 0]

\* the keys get_ads_performance puts into current_period_data
current_period_data(totals) ==
    {"impressions", "clicks", "conversions", "cost"}
      \cup (IF totals.impressions > 0 THEN {"clickThroughRate"} ELSE {})
      \cup (IF totals.clicks > 0 THEN {"conversionRate"} ELSE {})
      \cup (IF totals.conversions > 0 THEN {"costPerConversion"} ELSE {})

\* the metrics of the result dict, each built as {"value": .., "change": ..}.
\* With previous_period the result names all seven keys of
\* current_period_data: a missing one raises KeyError inside the try, as a
\* failing previous query does, and the handler falls back to the keys at hand.
performance_result(totals, previous_period, prev_raises) ==
    IF previous_period
    THEN IF prev_raises \/ ~(RequiredMetrics \subseteq current_period_data(totals))
         THEN current_period_data(totals)
         ELSE RequiredMetrics
    ELSE current_period_data(totals)

\* google_ads_client.get_ads_performance: the dict's metrics, "None" or "raise"
get_ads_performance_period(api, previous_period, prev_raises) ==
    LET client == get_google_ads_client(api)
    IN IF client = "raise" THEN [tag |-> "raise", metrics |-> {}]
       ELSE IF client = "None" THEN [tag |-> "None", metrics |-> {}]
       ELSE IF api \in SuccessfulQueries
       THEN [tag |-> "dict",
             metrics |-> performance_result(ApiTotals(api), previous_period, prev_raises)]
       ELSE [tag |-> "None", metrics |-> {}]

\* get_ads_performance called with previous_period left at its default
get_ads_performance(api) == get_ads_performance_period(api, FALSE, FALSE)

\* extended_google_ads_api.get_campaign_performance: "rows", "empty", "None"
\* or "raise".  strptime of a start_date that is no string raises TypeError,
\* which the function's own handler turns into None.
get_campaign_performance(start_date, api) ==
    IF api = "import_error" THEN "raise"   \* GoogleAdsException is Exception, and
                                           \* the handler reads ex.failure
    ELSE IF get_google_ads_client(api) # "client" THEN "None"
    ELSE IF start_date = "client" THEN "None"
    ELSE CASE api = "ok"        -> "rows"
           [] api = "malformed" -> "rows"
           [] api = "empty"     -> "empty"
           [] OTHER             -> "None"

\* extended_google_ads_api.get_ad_group_performance, of the same frame
get_ad_group_performance(start_date, api) == get_campaign_performance(start_date, api)

\* extended_google_ads_api.get_search_term_performance, of the same frame
get_search_term_performance(start_date, api) == get_campaign_performance(start_date, api)

\* truth value of what one of these functions returned
Truthy(result) == result = "rows"

\* whether extended_routes imported the API functions
FunctionsImported(api) == api # "import_error"

\* google_ads_fallback.get_ads_performance_with_fallback
get_ads_performance_with_fallback(allow_mock_data, api) ==
    LET real_data == IF api = "import_error"
                     THEN [tag |-> "ImportError", metrics |-> {}]
                     ELSE get_ads_performance(api)
        is_valid == RequiredMetrics \subseteq real_data.metrics
    IN IF real_data.tag = "dict" /\ is_valid
       THEN [kind |-> "real", metrics |-> real_data.metrics]
       ELSE IF ~allow_mock_data
       THEN [kind |-> "error", metrics |-> {}]
       ELSE [kind |-> "mock", metrics |-> RequiredMetrics]

\* google_ads_fallback.get_campaign_performance_with_fallback
get_campaign_performance_with_fallback(allow_mock_data, start_date, api) ==
    LET campaigns == get_campaign_performance(start_date, api)
    IN IF Truthy(campaigns) THEN [kind |-> "real", metrics |-> {}]
       ELSE IF ~allow_mock_data THEN [kind |-> "error", metrics |-> {}]
       ELSE [kind |-> "mock", metrics |-> {}]

(***************************************************************************)
(* Actions of the achievement engine.                                      *)
(***************************************************************************)
\* AchievementEngine.process_event
ProcessEvent(user_id, event_type, context, macosOk) ==
    /\ eventCount < MaxEvents
    /\ \E S \in {process_loop(CallState, achievements, user_id, event_type,
                             context, clock, notifier, macosOk)} :
       /\ user_achievements' = S.ua
       /\ user_streaks' = S.streaks
       /\ unlocked_count' = S.ucount
       /\ user_points' = S.points
       /\ user_badges' = S.badges
       /\ user_features' = S.features
       /\ rewardCalls' = S.calls
       /\ progress_file' = S.progress_file
       /\ achievements_file' =
             IF S.raised THEN achievements_file
             ELSE [order |-> achievements, unlocked_count |-> S.ucount]
       /\ lastCall' = Trace("process_event", user_id, S,
                            IF S.raised THEN <<>> ELSE S.unlocked)
    /\ eventCount' = eventCount + 1
    /\ UNCHANGED <<achievements, notifier, clock>>
    /\ UNCHANGED <<tasks, adsVars, authVars, tokenVars>>

\* a reset that clears every record of the user, whatever achievement_id says
reset_every_record(ua, user_id, achievement_id) ==
    [ua EXCEPT ![user_id] = [x \in DOMAIN @ |-> NewUserAchievement]]

\* the records after the reset branches of reset_achievement_progress:
\* achievement_id "None" resets all records of the user
reset_records(ua, user_id, achievement_id) ==
    [ua EXCEPT ![user_id] =
       [x \in DOMAIN @ |->
          IF achievement_id = "None" \/ x = achievement_id
          THEN NewUserAchievement ELSE @[x]]]

\* the trace of a call of reset_achievement_progress
ResetTrace(user_id, achievement_id, ret) ==
    [op |-> "reset_achievement_progress", user_id |-> user_id,
     achievement_id |-> achievement_id, skipped |-> {},
     evaluated |-> {}, values |-> EmptyMap, errors |-> {}, unhandled |-> {},
     no_update |-> {},
     results |-> EmptyMap, unlocked |-> <<>>, raised |-> FALSE, ret |-> ret]

\* ProgressTracker.reset_achievement_progress
ResetAchievementProgress(user_id, achievement_id) ==
    /\ lastCall' = ResetTrace(user_id, achievement_id,
                              user_id \in DOMAIN user_achievements)
    /\ IF user_id \notin DOMAIN user_achievements
       THEN UNCHANGED <<user_achievements, progress_file>>
       ELSE LET ua == reset_records(user_achievements, user_id, achievement_id)
            IN /\ user_achievements' = ua
               /\ progress_file' = ua
    /\ UNCHANGED <<achievements, unlocked_count, user_streaks, user_points,
                   user_badges, user_features, notifier, clock, eventCount,
                   rewardCalls, achievements_file>>
    /\ UNCHANGED <<tasks, adsVars, authVars, tokenVars>>

\* AchievementEngine.register_achievement
RegisterAchievement(a) ==
    /\ lastCall' = OpTrace("register_achievement",
                            CriteriaRegistryGet(AchDef(a).criteria_id) # "None")
    /\ IF CriteriaRegistryGet(AchDef(a).criteria_id) = "None"
       THEN UNCHANGED <<achievements, unlocked_count, achievements_file>>
       ELSE LET order == IF \E i \in DOMAIN achievements : achievements[i] = a
                         THEN achievements ELSE Append(achievements, a)
                ucount == [unlocked_count EXCEPT ![a] = 0]
            IN /\ achievements' = order
               /\ unlocked_count' = ucount
               /\ achievements_file' = [order |-> order, unlocked_count |-> ucount]
    /\ UNCHANGED <<user_achievements, user_streaks, user_points, user_badges,
                   user_features, notifier, clock, eventCount, rewardCalls,
                   progress_file>>
    /\ UNCHANGED <<tasks, adsVars, authVars, tokenVars>>

\* the passage of time between calls
Tick ==
    /\ clock < MaxTicks * JustUnlockedWindow
    /\ clock' = clock + JustUnlockedWindow
    /\ UNCHANGED <<achievements, unlocked_count, user_achievements, user_streaks,
                   user_points, user_badges, user_features, notifier, eventCount,
                   rewardCalls, progress_file, achievements_file, lastCall>>
    /\ UNCHANGED <<tasks, adsVars, authVars, tokenVars>>

\* ProgressTracker.get_user_achievements: the ids of the records it lists.
\* The achievement definition it consults is a placeholder whose hidden is
\* False for every id.
get_user_achievements(user_id, include_hidden) ==
    LET placeholder_hidden == FALSE
    IN IF user_id \notin DOMAIN user_achievements THEN {}
       ELSE {a \in DOMAIN user_achievements[user_id] :
                ~(placeholder_hidden /\ ~include_hidden)}

\* AchievementEngine.get_user_achievement_summary, as served at
\* /achievements/{user_id}; recent_unlocks holds the ids it lists (the model
\* has fewer than five records for a user, so that [:5] keeps them all)
get_user_achievement_summary(user_id, include_hidden) ==
    LET listed   == get_user_achievements(user_id, include_hidden)
        unlocked == {a \in listed : user_achievements[user_id][a].unlocked}
    IN [include_hidden |-> include_hidden,
        total_achievements |-> Len(achievements),
        unlocked_achievements |-> Cardinality(unlocked),
        total_points |-> Get(user_points, user_id, 0),
        badges |-> Get(user_badges, user_id, {}),
        recent_unlocks |->
            {a \in unlocked :
                user_achievements[user_id][a].first_achieved_at # NoneTime}]

\* GET /achievements/{user_id}
GetUserAchievementSummary(user_id, include_hidden) ==
    /\ lastCall' = [OpTrace("get_user_achievement_summary",
                            get_user_achievement_summary(user_id, include_hidden))
                      EXCEPT !.user_id = user_id]
    /\ UNCHANGED <<achievements, unlocked_count, user_achievements, user_streaks,
                   user_points, user_badges, user_features, notifier, clock,
                   eventCount, rewardCalls, progress_file, achievements_file>>
    /\ UNCHANGED <<tasks, adsVars, authVars, tokenVars>>

(***************************************************************************)
(* process_event as a coroutine: one action per stretch of code between    *)
(* two awaits.  Every await is taken as a point where the event loop may   *)
(* run the other coroutine.                                                *)
(***************************************************************************)
AsyncFrame ==
    /\ UNCHANGED <<achievements, notifier, clock, eventCount, lastCall>>
    /\ UNCHANGED <<adsVars, authVars, tokenVars>>

\* the update that tests the record as it was when it was looked up
RecordAtLookup(looked_up, current) == looked_up

\* update_progress after the await: user_achievement is the object stored in
\* self.user_achievements, read as it is now
RecordAtUpdate(looked_up, current) == current

\* the coroutine moves to the next achievement of the loop
NextAchievement(task) ==
    [task EXCEPT !.pc = "loop", !.idx = @ + 1, !.looked_up = NewUserAchievement,
                 !.current_value = 0]

\* process_event lines 109-116, after update_progress returned the record
AfterUpdate(task, rec) ==
    IF /\ rec.unlocked
       /\ rec.first_achieved_at # NoneTime
       /\ clock - rec.first_achieved_at < JustUnlockedWindow
    THEN [task EXCEPT !.pc = "rewards", !.looked_up = NewUserAchievement,
                      !.current_value = 0]
    ELSE NextAchievement(task)

\* process_event is called: the context is prepared
AsyncStart(t, user_id, event_type, context) ==
    /\ tasks[t].pc = "idle"
    /\ tasks' = [tasks EXCEPT ![t] =
                   [IdleTask EXCEPT !.pc = "loop", !.user_id = user_id,
                                    !.event_type = event_type,
                                    !.context = context]]
    /\ UNCHANGED <<unlocked_count, user_achievements, user_streaks, user_points,
                   user_badges, user_features, rewardCalls, progress_file,
                   achievements_file>>
    /\ AsyncFrame

\* the head of the loop and update_progress up to the await of evaluate
AsyncLookup(t) ==
    LET task == tasks[t]
        a    == achievements[task.idx]
        byUser == Get(user_achievements, task.user_id, EmptyMap)
        rec  == Get(byUser, a, NewUserAchievement)
    IN /\ task.pc = "loop"
       /\ task.idx <= Len(achievements)
       /\ IF AchDef(a).hidden /\ task.event_type \notin HiddenEventTypes
          THEN /\ tasks' = [tasks EXCEPT ![t] = NextAchievement(task)]
               /\ UNCHANGED user_achievements
          ELSE /\ user_achievements' =
                     Put(user_achievements, task.user_id, Put(byUser, a, rec))
               /\ tasks' = [tasks EXCEPT ![t] =
                     IF rec.unlocked /\ unlocked_count[a] >= 1
                     THEN AfterUpdate(task, rec)
                     ELSE IF CriteriaRegistryGet(AchDef(a).criteria_id) = "None"
                     THEN NextAchievement(task)
                     ELSE [task EXCEPT !.pc = "evaluate", !.looked_up = rec]]
       /\ UNCHANGED <<unlocked_count, user_streaks, user_points, user_badges,
                      user_features, rewardCalls, progress_file, achievements_file>>
       /\ AsyncFrame

\* criteria.evaluate, which has no await of its own
AsyncEvaluate(t) ==
    LET task == tasks[t]
        a    == achievements[task.idx]
    IN /\ task.pc = "evaluate"
       /\ \E ev \in {CriteriaEvaluate(AchDef(a).criteria_id, user_streaks,
                                       task.user_id, task.context)} :
            /\ user_streaks' = ev.streaks
            /\ tasks' = [tasks EXCEPT ![t] =
                            [task EXCEPT !.pc = "update",
                                         !.current_value = ev.value]]
       /\ UNCHANGED <<unlocked_count, user_achievements, user_points, user_badges,
                      user_features, rewardCalls, progress_file, achievements_file>>
       /\ AsyncFrame

\* update_progress from the return of evaluate to its own return, and
\* process_event up to its next await
AsyncUpdate(t) ==
    LET task == tasks[t]
        a    == achievements[task.idx]
        rec  == RecordAtUpdate(task.looked_up, user_achievements[task.user_id][a])
        target_reached == TargetReached(task.current_value, AchDef(a).target_value)
        unlockNow == target_reached /\ ~rec.unlocked
        rec1 == [user_achievements[task.user_id][a] EXCEPT
                   !.progress_history =
                       Append(@, [date |-> clock, value |-> task.current_value]),
                   !.current_value = task.current_value,
                   !.unlocked = IF unlockNow THEN TRUE ELSE @,
                   !.first_achieved_at = IF unlockNow THEN clock ELSE @]
        ua2  == [user_achievements EXCEPT ![task.user_id][a] = rec1]
    IN /\ task.pc = "update"
       /\ user_achievements' = ua2
       /\ unlocked_count' = [unlocked_count EXCEPT ![a] =
                                IF unlockNow THEN @ + 1 ELSE @]
       /\ progress_file' = ua2
       /\ tasks' = [tasks EXCEPT ![t] = AfterUpdate(task, rec1)]
       /\ UNCHANGED <<user_streaks, user_points, user_badges, user_features,
                      rewardCalls, achievements_file>>
       /\ AsyncFrame

\* RewardRegistry.process_rewards for the achievement at hand
AsyncRewards(t) ==
    LET task == tasks[t]
        a    == achievements[task.idx]
    IN /\ task.pc = "rewards"
       /\ \E S \in {process_rewards(CallState, task.user_id, a)} :
            /\ user_points' = S.points
            /\ user_badges' = S.badges
            /\ user_features' = S.features
            /\ rewardCalls' = S.calls
       /\ tasks' = [tasks EXCEPT ![t] = [task EXCEPT !.pc = "notify"]]
       /\ UNCHANGED <<unlocked_count, user_achievements, user_streaks,
                      progress_file, achievements_file>>
       /\ AsyncFrame

\* send_achievement_notification and the append to unlocked_achievements
AsyncNotify(t, macosOk) ==
    LET task == tasks[t]
        a    == achievements[task.idx]
        sent == IF notifier = "None" THEN "True"
                ELSE send_achievement_notification(notifier, macosOk)
    IN /\ task.pc = "notify"
       /\ tasks' = [tasks EXCEPT ![t] =
                      IF sent = "raise"
                      THEN [task EXCEPT !.pc = "done", !.unlocked = <<>>]
                      ELSE [NextAchievement(task) EXCEPT
                              !.unlocked = Append(@, a)]]
       /\ UNCHANGED <<unlocked_count, user_achievements, user_streaks, user_points,
                      user_badges, user_features, rewardCalls, progress_file,
                      achievements_file>>
       /\ AsyncFrame

\* the loop is over: _save_achievements and the return
AsyncFinish(t) ==
    LET task == tasks[t]
    IN /\ task.pc = "loop"
       /\ task.idx > Len(achievements)
       /\ achievements_file' =
             [order |-> achievements, unlocked_count |-> unlocked_count]
       /\ tasks' = [tasks EXCEPT ![t] = [task EXCEPT !.pc = "done"]]
       /\ UNCHANGED <<unlocked_count, user_achievements, user_streaks, user_points,
                      user_badges, user_features, rewardCalls, progress_file>>
       /\ AsyncFrame

(***************************************************************************)
(* Actions of the Ads backend: one per route or entry point.               *)
(***************************************************************************)
\* what a route leaves alone apart from request and response
RouteFrame ==
    UNCHANGED <<ALLOW_MOCK_DATA, USE_REAL_ADS_CLIENT, ENVIRONMENT,
                ALLOW_MOCK_AUTH, session, authVars, tokenVars>>

Request(api, auth, start_date) ==
    [api |-> api, auth |-> auth, start_date |-> start_date]

\* a direct call of google_ads_fallback.get_ads_performance_with_fallback
CallAdsPerformanceFallback(api) ==
    /\ request' = Request(api, "none", "None")
    /\ \E p \in {get_ads_performance_with_fallback(ALLOW_MOCK_DATA, api)} :
          response' = Response("get_ads_performance_with_fallback", 0, p.kind, p.metrics)
    /\ RouteFrame /\ UNCHANGED achVars

\* a direct call of google_ads_client.get_ads_performance
CallAdsPerformance(api, previous_period, prev_raises) ==
    /\ request' = Request(api, "none", "None")
    /\ \E p \in {get_ads_performance_period(api, previous_period, prev_raises)} :
          response' = Response(IF previous_period
                               THEN "get_ads_performance(previous_period=True)"
                               ELSE "get_ads_performance", 0, p.tag, p.metrics)
    /\ RouteFrame /\ UNCHANGED achVars

\* a direct call of google_ads_fallback.get_campaign_performance_with_fallback
CallCampaignPerformanceFallback(api, start_date) ==
    /\ request' = Request(api, "none", start_date)
    /\ \E p \in {get_campaign_performance_with_fallback(ALLOW_MOCK_DATA, start_date, api)} :
          response' = Response("get_campaign_performance_with_fallback", 0, p.kind, p.metrics)
    /\ RouteFrame /\ UNCHANGED achVars

\* app.py ads_performance, GET /api/google-ads/performance
ads_performance(api, auth) ==
    /\ request' = Request(api, auth, "None")
    /\ IF auth = "none" /\ session.user_id = "None"
       THEN response' = Response("ads_performance", 401, "unauthorized", {})
       ELSE \E performance_data \in {get_ads_performance_with_fallback(ALLOW_MOCK_DATA, api)} :
              LET copied == RequiredMetrics \cap performance_data.metrics
              IN response' =
                   Response("ads_performance", 200,
                            IF copied = {} THEN "placeholder" ELSE performance_data.kind,
                            copied)
    /\ RouteFrame /\ UNCHANGED achVars

\* the tail shared by the extended routes: 404 unless mock data is allowed
MockOr404(endpoint, mock_kind) ==
    IF ~ALLOW_MOCK_DATA
    THEN Response(endpoint, 404, "error", {})
    ELSE Response(endpoint, 200, mock_kind, {})

\* extended_routes.get_campaigns, GET /api/google-ads/campaigns: the route
\* hands the client object to get_campaign_performance as its start_date
get_campaigns(api) ==
    LET use_real == USE_REAL_ADS_CLIENT \/ session.use_real_ads_client
        client == get_google_ads_client(api)
        real_data == IF use_real /\ FunctionsImported(api) /\ client = "client"
                     THEN get_campaign_performance("client", api)
                     ELSE "None"
    IN /\ request' = Request(api, "none", "None")
       /\ response' = IF Truthy(real_data)
                      THEN Response("get_campaigns", 200, "real", {})
                      ELSE MockOr404("get_campaigns", "mock")
       /\ RouteFrame /\ UNCHANGED achVars

\* extended_routes.get_ad_groups, GET /api/google-ads/ad_groups: the route
\* hands the client object to get_ad_group_performance as its start_date
get_ad_groups(api) ==
    LET use_real == USE_REAL_ADS_CLIENT \/ session.use_real_ads_client
        client == get_google_ads_client(api)
        real_data == IF use_real /\ FunctionsImported(api) /\ client = "client"
                     THEN get_ad_group_performance("client", api)
                     ELSE "None"
    IN /\ request' = Request(api, "none", "None")
       /\ response' = IF Truthy(real_data)
                      THEN Response("get_ad_groups", 200, "real", {})
                      ELSE MockOr404("get_ad_groups", "mock")
       /\ RouteFrame /\ UNCHANGED achVars

\* extended_routes.get_search_terms, GET /api/google-ads/search_terms
get_search_terms(api, auth, start_date) ==
    LET use_real_data == /\ auth # "none"
                         /\ auth # "mock" \/ session.use_real_ads_client
        data == IF use_real_data /\ FunctionsImported(api)
                THEN get_search_term_performance(start_date, api) ELSE "None"
    IN /\ request' = Request(api, auth, start_date)
       /\ response' = IF Truthy(data)
                      THEN Response("get_search_terms", 200, "real", {})
                      ELSE MockOr404("get_search_terms", "placeholder")
       /\ RouteFrame /\ UNCHANGED achVars

\* extended_routes.get_keywords, GET /api/google-ads/keywords
get_keywords(api, auth, start_date) ==
    LET real_data == IF FunctionsImported(api)
                     THEN get_search_term_performance(start_date, api) ELSE "None"
    IN /\ request' = Request(api, auth, start_date)
       /\ response' = IF auth = "none"
                      THEN Response("get_keywords", 401, "unauthorized", {})
                      ELSE IF Truthy(real_data)
                      THEN Response("get_keywords", 200, "real", {})
                      ELSE MockOr404("get_keywords", "placeholder")
       /\ RouteFrame /\ UNCHANGED achVars

\* extended_routes.get_ads, GET /api/google-ads/ads
get_ads(api, auth, start_date) ==
    LET real_data == IF FunctionsImported(api) /\ start_date # "None"
                     THEN get_search_term_performance(start_date, api) ELSE "None"
    IN /\ request' = Request(api, auth, start_date)
       /\ response' = IF auth = "none"
                      THEN Response("get_ads", 401, "unauthorized", {})
                      ELSE IF Truthy(real_data)
                      THEN Response("get_ads", 200, "real", {})
                      ELSE MockOr404("get_ads", "mock")
       /\ RouteFrame /\ UNCHANGED achVars

\* extended_routes.get_performance, GET /api/google-ads/performance of the
\* blueprint: the totals are read from a 'summary' key the campaigns lack
get_performance(api, auth, start_date) ==
    LET campaigns == IF FunctionsImported(api)
                     THEN get_campaign_performance(start_date, api) ELSE "None"
    IN /\ request' = Request(api, auth, start_date)
       /\ response' = IF auth = "none"
                      THEN Response("get_performance", 401, "unauthorized", {})
                      ELSE IF Truthy(campaigns)
                      THEN Response("get_performance", 200, "zeros", {})
                      ELSE Response("get_performance", 200, "placeholder", {})
       /\ RouteFrame /\ UNCHANGED achVars

\* app.py use_real_ads_client, GET /api/auth/use-real-ads-client
use_real_ads_client ==
    /\ session' = [session EXCEPT !.use_real_ads_client = TRUE]
    /\ request' = NoRequest
    /\ response' = Response("use_real_ads_client", 200, "status", {})
    /\ UNCHANGED <<ALLOW_MOCK_DATA, USE_REAL_ADS_CLIENT, ENVIRONMENT, ALLOW_MOCK_AUTH>>
    /\ UNCHANGED <<authVars, tokenVars>>
    /\ UNCHANGED achVars

\* app.py mock_token, GET /api/auth/mock-token
mock_token ==
    /\ request' = NoRequest
    /\ IF ENVIRONMENT = "production" /\ ~ALLOW_MOCK_AUTH
       THEN /\ response' = Response("mock_token", 403, "error", {})
            /\ UNCHANGED <<session, TOKENS>>
       ELSE /\ response' = Response("mock_token", 200, "status", {})
            /\ TOKENS' = TOKENS \cup {MockTokenUser}
            /\ session' = [session EXCEPT !.user_id = MockTokenUser]
    /\ authCall' = [NoAuthCall EXCEPT !.route = "mock_token"]
    /\ UNCHANGED <<token_file, google_ads_yaml, tokenVars>>
    /\ UNCHANGED <<ALLOW_MOCK_DATA, USE_REAL_ADS_CLIENT, ENVIRONMENT, ALLOW_MOCK_AUTH>>
    /\ UNCHANGED achVars

(***************************************************************************)
(* The OAuth routes of app.py.                                             *)
(***************************************************************************)
AuthFrame ==
    /\ request' = NoRequest
    /\ UNCHANGED tokenVars
    /\ UNCHANGED <<ALLOW_MOCK_DATA, USE_REAL_ADS_CLIENT, ENVIRONMENT, ALLOW_MOCK_AUTH>>
    /\ UNCHANGED achVars

\* app.py index, GET /
index ==
    /\ response' = Response("index", 302,
                            IF session.user_id # "None"
                            THEN "redirect:/ads-dashboard"
                            ELSE "redirect:/api/auth/login", {})
    /\ authCall' = [NoAuthCall EXCEPT !.route = "index"]
    /\ UNCHANGED <<session, TOKENS, token_file, google_ads_yaml>>
    /\ AuthFrame

\* app.py ads_dashboard, GET /ads-dashboard: the first of the two view
\* functions registered for the URL, the one the URL map dispatches to
ads_dashboard ==
    /\ session' = IF session.user_id = "None"
                  THEN [session EXCEPT !.user_id = MockDashboardUser,
                                       !.use_real_ads_client = TRUE]
                  ELSE session
    /\ response' = Response("ads_dashboard", 200, "page:ads_dashboard", {})
    /\ authCall' = [NoAuthCall EXCEPT !.route = "ads_dashboard"]
    /\ UNCHANGED <<TOKENS, token_file, google_ads_yaml>>
    /\ AuthFrame

\* app.py ads_dashboard_page, the second view function registered for
\* GET /ads-dashboard
ads_dashboard_page(mock_user) ==
    /\ IF ENVIRONMENT = "development" /\ ALLOW_MOCK_AUTH
       THEN /\ session' = IF session.user_id = "None"
                          THEN [session EXCEPT !.user_id = mock_user]
                          ELSE session
            /\ response' = Response("ads_dashboard_page", 200,
                                    "page:ads_dashboard", {})
       ELSE /\ UNCHANGED session
            /\ response' = IF session.user_id = "None"
                           THEN Response("ads_dashboard_page", 302,
                                         "redirect:/api/auth/login", {})
                           ELSE Response("ads_dashboard_page", 200,
                                         "page:ads_dashboard", {})
    /\ authCall' = [NoAuthCall EXCEPT !.route = "ads_dashboard_page"]
    /\ UNCHANGED <<TOKENS, token_file, google_ads_yaml>>
    /\ AuthFrame

\* app.py login, GET /api/auth/login
login(client_secret, state) ==
    /\ IF client_secret \in {"none", "unreadable"}
       THEN /\ UNCHANGED session
            /\ response' = Response("login", 200, "page:error", {})
       ELSE /\ session' = [session EXCEPT !.client_config = TRUE,
                                          !.auth_state = state]
            /\ response' = Response("login", 302, "redirect:auth_url", {})
    /\ authCall' = [NoAuthCall EXCEPT !.route = "login"]
    /\ UNCHANGED <<TOKENS, token_file, google_ads_yaml>>
    /\ AuthFrame

\* a state check that accepts whatever state the request carries
StateUnchecked(sess, state) ==
    sess.auth_state # "None"

\* callback: the state check of the OAuth callback
StateAccepted(sess, state) ==
    sess.auth_state # "None" /\ sess.auth_state = state

\* a token exchange without the manual OAuth2Session retry
fetch_token_without_retry(exchange) ==
    CASE exchange = "ok" ->
            [creds |-> TRUE, steps |-> <<"fetch_token", "credentials">>]
      [] OTHER ->
            [creds |-> FALSE, steps |-> <<"fetch_token">>]

\* callback: flow.fetch_token and the manual OAuth2Session retry, the steps
\* they take and whether credentials come out
fetch_token(exchange) ==
    CASE exchange = "ok" ->
            [creds |-> TRUE, steps |-> <<"fetch_token", "credentials">>]
      [] exchange = "scope_changed_ok" ->
            [creds |-> TRUE,
             steps |-> <<"fetch_token", "manual_fetch_token", "credentials">>]
      [] exchange = "scope_changed_fail" ->
            [creds |-> FALSE, steps |-> <<"fetch_token", "manual_fetch_token">>]
      [] OTHER ->
            [creds |-> FALSE, steps |-> <<"fetch_token">>]

\* callback: what follows the token exchange, from the write of token.json to
\* the redirect
store_credentials(exchange, refresh_token, user_id) ==
    LET created == IF google_ads_yaml = "absent" THEN refresh_token
                   ELSE google_ads_yaml
        update  == refresh_token # "None" /\ created # refresh_token
    IN [token_file      |-> [exists |-> TRUE,
                             token |-> FreshToken(token_file.token),
                             refresh_token |-> refresh_token,
                             expiry |-> IF exchange = "ok" THEN "valid"
                                        ELSE "missing"],
        google_ads_yaml |-> IF update THEN refresh_token ELSE created,
        TOKENS          |-> TOKENS \cup {user_id},
        session         |-> [session EXCEPT !.user_id = user_id,
                                            !.use_real_ads_client = TRUE],
        steps           |-> <<"write_token_file">>
                            \o (IF google_ads_yaml = "absent"
                                THEN <<"create_yaml">> ELSE <<>>)
                            \o <<"store_token", "set_session">>
                            \o (IF update THEN <<"update_yaml">> ELSE <<>>)
                            \o <<"redirect_dashboard">>]

\* app.py callback, GET /api/auth/callback; the token endpoint answers, and a
\* user id is drawn, only in a callback that passes the checks
callback(mock, code, state) ==
    LET call == [NoAuthCall EXCEPT !.route = "callback", !.mock = mock,
                                   !.code = code, !.state = state]
        error == Response("callback", 200, "page:error", {})
    IN /\ IF mock \/ code = "None" \/ ~session.client_config
             \/ ~StateAccepted(session, state)
          THEN /\ authCall' = [call EXCEPT !.steps = <<"error_page">>]
               /\ response' = error
               /\ UNCHANGED <<session, TOKENS, token_file, google_ads_yaml>>
          ELSE \E exchange \in Exchanges, refresh_token \in RefreshTokens,
                  user_id \in OAuthUsers :
               LET token == fetch_token(exchange)
               IN IF ~token.creds
                  THEN /\ authCall' = [call EXCEPT
                                          !.exchange = exchange,
                                          !.steps = token.steps \o <<"error_page">>]
                       /\ response' = error
                       /\ UNCHANGED <<session, TOKENS, token_file, google_ads_yaml>>
                  ELSE LET stored == store_credentials(exchange, refresh_token, user_id)
                       IN /\ authCall' = [call EXCEPT
                                             !.exchange = exchange,
                                             !.steps = token.steps \o stored.steps]
                          /\ response' = Response("callback", 302,
                                                  "redirect:/ads-dashboard", {})
                          /\ session' = stored.session
                          /\ TOKENS' = stored.TOKENS
                          /\ token_file' = stored.token_file
                          /\ google_ads_yaml' = stored.google_ads_yaml
       /\ AuthFrame

\* AchievementEngine.__init__ with no data files on disk
EngineInit ==
    /\ achievements = DefaultOrder
    /\ unlocked_count = [a \in AchIds |-> 0]
    /\ user_achievements = EmptyMap
    /\ user_streaks = [c \in StreakCriteria |-> EmptyMap]
    /\ user_points = EmptyMap
    /\ user_badges = EmptyMap
    /\ user_features = EmptyMap
    /\ notifier = "realtime"
    /\ clock = 0
    /\ eventCount = 0
    /\ rewardCalls = [u \in AllUsers |-> [a \in AchIds |-> 0]]
    /\ progress_file = EmptyMap
    /\ achievements_file = [order |-> DefaultOrder, unlocked_count |-> [a \in AchIds |-> 0]]
    /\ lastCall = OpTrace("init", TRUE)
    /\ tasks = [t \in TaskIds |-> IdleTask]

\* the Ads backend started with config.py's defaults, before any request
Init ==
    /\ EngineInit
    /\ ALLOW_MOCK_DATA = FALSE
    /\ USE_REAL_ADS_CLIENT = TRUE
    /\ ENVIRONMENT = "production"
    /\ ALLOW_MOCK_AUTH = FALSE
    /\ session = NewSession
    /\ request = NoRequest
    /\ response = NoResponse
    /\ TOKENS = {}
    /\ token_file = NoTokenFile
    /\ google_ads_yaml = "absent"
    /\ authCall = NoAuthCall
    /\ token_status = NoTokenStatus
    /\ token_manager = IdleManager
    /\ refreshCall = NoRefreshCall

Next ==
    \/ \E u \in Users, t \in EventTypes, c \in Contexts, ok \in BOOLEAN :
          ProcessEvent(u, t, c, ok)
    \/ \E u \in Users, a \in ResetTargets : ResetAchievementProgress(u, a)
    \/ \E a \in DOMAIN Registerable : RegisterAchievement(a)
    \/ Tick

vars == <<achVars, adsVars, authVars, tokenVars>>

Spec == Init /\ [][Next]_vars

\* the Ads backend started under any configuration of config.py
AdsInit ==
    /\ EngineInit
    /\ ALLOW_MOCK_DATA \in BOOLEAN
    /\ USE_REAL_ADS_CLIENT \in BOOLEAN
    /\ ENVIRONMENT \in {"production", "development"}
    /\ ALLOW_MOCK_AUTH \in BOOLEAN
    /\ session = NewSession
    /\ request = NoRequest
    /\ response = NoResponse
    /\ TOKENS = {}
    /\ token_file = NoTokenFile
    /\ google_ads_yaml = "absent"
    /\ authCall = NoAuthCall
    /\ token_status = NoTokenStatus
    /\ token_manager = IdleManager
    /\ refreshCall = NoRefreshCall

AdsNext ==
    \/ \E api \in ApiOutcomes : CallAdsPerformanceFallback(api)
    \/ \E api \in ApiOutcomes, previous_period \in BOOLEAN, prev_raises \in BOOLEAN :
          CallAdsPerformance(api, previous_period, prev_raises)
    \/ \E api \in ApiOutcomes, d \in StartDates : CallCampaignPerformanceFallback(api, d)
    \/ \E api \in ApiOutcomes, auth \in AuthHeaders : ads_performance(api, auth)
    \/ \E api \in ApiOutcomes : get_campaigns(api)
    \/ \E api \in ApiOutcomes : get_ad_groups(api)
    \/ \E api \in ApiOutcomes, auth \in AuthHeaders, d \in StartDates :
          get_search_terms(api, auth, d)
    \/ \E api \in ApiOutcomes, auth \in AuthHeaders, d \in StartDates :
          get_keywords(api, auth, d)
    \/ \E api \in ApiOutcomes, auth \in AuthHeaders, d \in StartDates :
          get_ads(api, auth, d)
    \/ \E api \in ApiOutcomes, auth \in AuthHeaders, d \in StartDates :
          get_performance(api, auth, d)
    \/ use_real_ads_client
    \/ mock_token

SpecAds == AdsInit /\ [][AdsNext]_vars

\* the engine behind the FastAPI server: events, registrations and resets,
\* and the summary requests that read the state
SummaryNext ==
    \/ Next
    \/ \E u \in Users, h \in BOOLEAN : GetUserAchievementSummary(u, h)

SpecSummary == Init /\ [][SummaryNext]_vars

\* two process_event coroutines for the same user, interleaved at the awaits
AsyncNext ==
    \/ \E t \in TaskIds, u \in Users, e \in EventTypes, c \in Contexts :
          AsyncStart(t, u, e, c)
    \/ \E t \in TaskIds : AsyncLookup(t)
    \/ \E t \in TaskIds : AsyncEvaluate(t)
    \/ \E t \in TaskIds : AsyncUpdate(t)
    \/ \E t \in TaskIds : AsyncRewards(t)
    \/ \E t \in TaskIds, ok \in BOOLEAN : AsyncNotify(t, ok)
    \/ \E t \in TaskIds : AsyncFinish(t)

SpecAsync == Init /\ [][AsyncNext]_vars

\* the backend's OAuth routes, started with or without credential files
AuthInit ==
    /\ EngineInit
    /\ ALLOW_MOCK_DATA = FALSE
    /\ USE_REAL_ADS_CLIENT = TRUE
    /\ ENVIRONMENT \in {"production", "development"}
    /\ ALLOW_MOCK_AUTH \in BOOLEAN
    /\ session = NewSession
    /\ request = NoRequest
    /\ response = NoResponse
    /\ TOKENS = {}
    /\ token_file \in {NoTokenFile, OldTokenFile}
    /\ google_ads_yaml \in {"absent", "r0"}
    /\ authCall = NoAuthCall
    /\ token_status = NoTokenStatus
    /\ token_manager = IdleManager
    /\ refreshCall = NoRefreshCall

AuthNext ==
    \/ index
    \/ ads_dashboard
    \/ \E u \in MockPageUsers : ads_dashboard_page(u)
    \/ \E c \in ClientSecrets, s \in AuthStates : login(c, s)
    \/ \E mock \in BOOLEAN, code \in {"None", "code"},
          state \in AuthStates \cup {"None"} : callback(mock, code, state)
    \/ mock_token

SpecAuth == AuthInit /\ [][AuthNext]_vars

(***************************************************************************)
(* Properties of the achievement engine.                                   *)
(***************************************************************************)
\* whether the record of user u for achievement a exists and is unlocked
UnlockedIn(ua, u, a) ==
    /\ u \in DOMAIN ua
    /\ a \in DOMAIN ua[u]
    /\ ua[u][a].unlocked

\* current_value of the record of user u for achievement a, 0 before it exists
ValueIn(ua, u, a) ==
    IF u \in DOMAIN ua /\ a \in DOMAIN ua[u] THEN ua[u][a].current_value ELSE 0

\* the step is one call of process_event
IsEventStep == eventCount' = eventCount + 1

Registered == {achievements[i] : i \in DOMAIN achievements}

\* C1: the rewards of an achievement are dispatched exactly once per unlock
\* transition of a user_achievement: every step raises the number of
\* process_rewards calls for (user, achievement) by one when the record goes
\* from not unlocked to unlocked, and by nothing otherwise.
C1_RewardsOncePerUnlock ==
    [][\A u \in Users, a \in AchIds :
         rewardCalls'[u][a] = rewardCalls[u][a] +
            (IF ~UnlockedIn(user_achievements, u, a)
                /\ UnlockedIn(user_achievements', u, a) THEN 1 ELSE 0)]_vars

\* C2: when update_progress evaluates an achievement that is not yet unlocked,
\* the record becomes unlocked in that call if and only if the evaluated
\* value is at least the achievement's target_value.
C2_UnlockIffTargetReached ==
    [][IsEventStep =>
         \A a \in DOMAIN lastCall'.values :
            ~UnlockedIn(user_achievements, lastCall'.user_id, a) =>
               (UnlockedIn(user_achievements', lastCall'.user_id, a)
                  <=> lastCall'.values[a] >= AchDef(a).target_value)]_vars

\* a call evaluated an achievement exactly at its target and unlocked it
C2_Witness ==
    /\ lastCall.op = "process_event"
    /\ \E i \in DOMAIN lastCall.unlocked :
          LET a == lastCall.unlocked[i]
          IN /\ a \in DOMAIN lastCall.values
             /\ lastCall.values[a] = AchDef(a).target_value
             /\ UnlockedIn(user_achievements, lastCall.user_id, a)

\* C6: the stored current_value of a percentage achievement never decreases
\* over the events processed for a user.
C6_PercentageNeverDecreases ==
    [][IsEventStep =>
         \A u \in Users, a \in AchIds :
            AchDef(a).progress_type = "percentage" =>
               ValueIn(user_achievements', u, a) >= ValueIn(user_achievements, u, a)]_vars

\* C7: the stored current_value of a boolean achievement is 0 or 1.
C7_BooleanIsZeroOrOne ==
    \A u \in DOMAIN user_achievements : \A a \in DOMAIN user_achievements[u] :
       AchDef(a).progress_type = "boolean" =>
          user_achievements[u][a].current_value \in {0, 1}

\* C8: each update of a streak achievement moves the stored current_value to
\* the previous value plus one, to 0, or leaves it unchanged.
C8_StreakStepsByOne ==
    [][IsEventStep =>
         \A u \in Users, a \in AchIds :
            AchDef(a).progress_type = "streak" =>
               ValueIn(user_achievements', u, a) \in
                  {ValueIn(user_achievements, u, a) + 1, 0,
                   ValueIn(user_achievements, u, a)}]_vars

\* C9: a failure inside criteria evaluation, reward handling or notification
\* sending is caught for that achievement only: every call of process_event,
\* whatever failed in it, runs to the end of its loop, so that every
\* registered achievement is either skipped as hidden or evaluated, and the
\* call returns its list of unlocked achievements.
C9_FailureIsPerItem ==
    lastCall.op = "process_event" =>
       /\ ~lastCall.raised
       /\ lastCall.evaluated \cup lastCall.skipped = Registered
       /\ \A a \in lastCall.skipped : AchDef(a).hidden
       /\ lastCall.ret = lastCall.unlocked

\* a notification failed for one achievement and a later one was evaluated
C9_Witness ==
    /\ lastCall.op = "process_event"
    /\ \E i, j \in DOMAIN achievements :
          /\ i < j
          /\ <<achievements[i], "sending notification">> \in lastCall.errors
          /\ achievements[j] \in DOMAIN lastCall.values

\* C10 as stated: every reward entry of type badge, points, feature, theme or
\* discount has a handler, so process_rewards never meets a missing handler
\* for one of them.
C10_FiveTypesHandled ==
    lastCall.unhandled \cap {"badge", "points", "feature", "theme", "discount"} = {}

\* C10: every reward entry of type badge, points or feature of an unlocked
\* achievement is given to its handler and never recorded as unhandled.
C10_ThreeTypesHandled ==
    /\ lastCall.unhandled \cap {"badge", "points", "feature"} = {}
    /\ \A a \in DOMAIN lastCall.results :
          \A i \in DOMAIN AchDef(a).rewards :
             LET t == AchDef(a).rewards[i].type
             IN t \in {"badge", "points", "feature"} =>
                   t \in DOMAIN lastCall.results[a] /\ lastCall.results[a][t]

\* the rewards of an achievement with a feature reward were dispatched
C10_Witness ==
    /\ lastCall.op = "process_event"
    /\ \E a \in DOMAIN lastCall.results :
          /\ "feature" \in DOMAIN lastCall.results[a]
          /\ lastCall.results[a]["feature"]
          /\ Get(user_features, lastCall.user_id, {}) # {}

\* the record of user u for achievement a, as update_progress finds or makes it
RecordIn(ua, u, a) ==
    IF u \in DOMAIN ua /\ a \in DOMAIN ua[u] THEN ua[u][a] ELSE NewUserAchievement

\* C11: when the criteria evaluation for an event yields no update,
\* update_progress leaves the record's current_value, unlocked flag,
\* first_achieved_at and progress_history unchanged.
C11_NoUpdateLeavesRecord ==
    [][IsEventStep =>
         \A a \in lastCall'.no_update :
            RecordIn(user_achievements', lastCall'.user_id, a)
               = RecordIn(user_achievements, lastCall'.user_id, a)]_vars

(***************************************************************************)
(* Properties of the Ads backend.                                          *)
(***************************************************************************)
FallbackFunctions ==
    {"get_ads_performance_with_fallback", "get_campaign_performance_with_fallback"}

\* C3: with ALLOW_MOCK_DATA false no fallback function and no route of
\* /campaigns, /ad_groups, /search_terms, /keywords, /ads, /performance
\* answers with random values: what it answers is real API data or an
\* explicit error payload.
C3_RealDataOrError ==
    (/\ ~ALLOW_MOCK_DATA
     /\ response.endpoint \in FallbackFunctions \cup
           {"get_campaigns", "get_ad_groups", "get_search_terms",
            "get_keywords", "get_ads", "get_performance"})
       => response.kind \in {"real", "error", "unauthorized"}

\* C4: when the real call of ads_performance fails or returns no or invalid
\* data and ALLOW_MOCK_DATA is false, the response is an explicit JSON error
\* with a status other than 200.
C4_FailureAnswersError ==
    (/\ response.endpoint = "ads_performance"
     /\ ~ALLOW_MOCK_DATA
     /\ request.api # "ok")
       => /\ response.status # 200
          /\ response.kind \in {"error", "unauthorized"}

\* C5: the fallback functions and the routes /campaigns and /ad_groups
\* return mock data only when the real call failed and ALLOW_MOCK_DATA is
\* true, and return the real data whenever the API can deliver it.
C5_MockOnlyAfterFailure ==
    (/\ response.endpoint \in FallbackFunctions \cup {"get_campaigns", "get_ad_groups"}
     /\ \/ response.endpoint \in FallbackFunctions
        \/ USE_REAL_ADS_CLIENT
        \/ session.use_real_ads_client)
       => /\ response.kind = "mock" => ALLOW_MOCK_DATA /\ request.api # "ok"
          /\ request.api = "ok" => response.kind = "real"

(***************************************************************************)
(* enhanced_auto_refresh.py: the refresh of credentials/token.json.        *)
(***************************************************************************)
\* enhanced_auto_refresh.is_token_expired
is_token_expired(token_data) ==
    IF token_data.expiry = "missing" THEN TRUE
    ELSE IF token_data.expiry = "unparsable" THEN TRUE
    ELSE token_data.expiry \in {"expired", "expiring"}

\* the Credentials object refresh_token_if_needed builds from the token data:
\* the constructor is given no expiry
Credentials(token_data) ==
    [token |-> token_data.token, refresh_token |-> token_data.refresh_token,
     expiry |-> "None"]

\* credentials.expired: credentials without an expiry never count as expired
CredentialsExpired(credentials) ==
    IF credentials.expiry = "None" THEN FALSE
    ELSE credentials.expiry = "expired"

\* update_yaml_with_token, called when find_yaml_file finds the file
update_yaml_with_token(yaml, refresh_token) ==
    IF yaml = "absent" THEN yaml ELSE refresh_token

\* enhanced_auto_refresh.generate_new_token: the files after it, its steps and
\* its return value
generate_new_token(client_secrets, flow, refresh_token) ==
    IF ~client_secrets \/ flow # "ok"
    THEN [token_file |-> token_file, google_ads_yaml |-> google_ads_yaml,
          steps |-> <<"generate_new_token">>, ret |-> "False"]
    ELSE [token_file |-> [exists |-> TRUE, token |-> FreshToken(token_file.token),
                          refresh_token |-> refresh_token, expiry |-> "valid"],
          google_ads_yaml |-> update_yaml_with_token(google_ads_yaml, refresh_token),
          steps |-> <<"generate_new_token", "run_local_server", "write_token_file">>,
          ret |-> "True"]

\* enhanced_auto_refresh.refresh_token_if_needed(force); refresh says whether
\* credentials.refresh succeeds
refresh_token_if_needed(force, refresh, client_secrets, flow, refresh_token) ==
    LET credentials == Credentials(token_file)
        unchanged(steps) ==
            [token_file |-> token_file, google_ads_yaml |-> google_ads_yaml,
             steps |-> steps, ret |-> "True"]
        new == generate_new_token(client_secrets, flow, refresh_token)
    IN IF ~token_file.exists THEN new
       ELSE IF ~force /\ ~is_token_expired(token_file)
       THEN unchanged(<<"still_valid">>)
       ELSE IF ~(CredentialsExpired(credentials) \/ force)
       THEN unchanged(<<"already_valid">>)
       ELSE IF refresh = "ok"
       THEN [token_file |-> [token_file EXCEPT !.token = FreshToken(@),
                                               !.expiry = "valid"],
             google_ads_yaml |->
                 update_yaml_with_token(google_ads_yaml, credentials.refresh_token),
             steps |-> <<"refresh", "write_token_file">>, ret |-> "True"]
       ELSE [new EXCEPT !.steps = <<"refresh">> \o @]

TokenFrame ==
    /\ UNCHANGED <<achVars, adsVars>>
    /\ UNCHANGED <<TOKENS, authCall>>

\* a call of refresh_token_if_needed
RefreshTokenIfNeeded(force, refresh, client_secrets, flow, refresh_token) ==
    /\ \E r \in {refresh_token_if_needed(force, refresh, client_secrets, flow,
                                          refresh_token)} :
         /\ token_file' = r.token_file
         /\ google_ads_yaml' = r.google_ads_yaml
         /\ refreshCall' = [n |-> 1 - refreshCall.n, force |-> force,
                            steps |-> r.steps, ret |-> r.ret]
    /\ UNCHANGED <<token_status, token_manager>>
    /\ TokenFrame

\* time passes: the expiry of token.json comes closer, then lies behind
TokenAges ==
    /\ token_file.exists
    /\ token_file.expiry \in {"valid", "expiring"}
    /\ token_file' = [token_file EXCEPT !.expiry =
                         IF @ = "valid" THEN "expiring" ELSE "expired"]
    /\ UNCHANGED <<google_ads_yaml, tokenVars>>
    /\ TokenFrame

(***************************************************************************)
(* smart_token_manager.py.  verify_ads_token runs up to the wait of        *)
(* start_oauth_callback_server, then step by step through                  *)
(* generate_new_refresh_token; requests reach the callback server while it *)
(* listens.                                                                *)
(***************************************************************************)
\* a should_refresh_token that asks for a refresh whatever the access test says
should_refresh_token_always(force_refresh, yaml, status, access) ==
    [refresh |-> TRUE, status |-> status, access |-> access]

\* smart_token_manager.should_refresh_token: whether to refresh, the token
\* status it leaves on disk and the result of the access test it ran, if any
should_refresh_token(force_refresh, yaml, status, access) ==
    IF force_refresh
    THEN [refresh |-> TRUE, status |-> status, access |-> "None"]
    ELSE IF yaml \in {"absent", "empty"}
    THEN [refresh |-> TRUE, status |-> status, access |-> "None"]
    ELSE IF status.last_check = "recent" /\ status.failed_checks = 0
    THEN [refresh |-> FALSE, status |-> status, access |-> "None"]
    ELSE IF access = "ok"
    THEN [refresh |-> FALSE,
          status |-> [last_check |-> "recent", failed_checks |-> 0],
          access |-> access]
    ELSE [refresh |-> TRUE,
          status |-> [last_check |-> "recent",
                      failed_checks |-> status.failed_checks + 1],
          access |-> access]

ManagerFrame ==
    /\ UNCHANGED <<token_file, refreshCall>>
    /\ TokenFrame

\* verify_ads_token(force_refresh) from its call to the wait in
\* start_oauth_callback_server, or to its return when it does not get there
VerifyAdsToken(force_refresh, access, client_config, port_free) ==
    /\ token_manager.pc \in {"idle", "done"}
    /\ token_status.failed_checks < MaxFailedChecks
    /\ \E d \in {should_refresh_token(force_refresh, google_ads_yaml,
                                       token_status, access)} :
         LET call == [IdleManager EXCEPT
                        !.n = 1 - token_manager.n,
                        !.force = force_refresh,
                        !.had_refresh_token =
                            google_ads_yaml \notin {"absent", "empty"},
                        !.access = d.access]
         IN /\ token_status' = d.status
            /\ token_manager' =
                  IF ~d.refresh
                  THEN [call EXCEPT !.pc = "done", !.ret = "True"]
                  ELSE IF ~client_config \/ ~port_free
                  THEN [call EXCEPT !.pc = "done", !.ret = "False"]
                  ELSE [call EXCEPT !.pc = "serving", !.server = "listening"]
    /\ UNCHANGED google_ads_yaml
    /\ ManagerFrame

\* OAuthCallbackHandler.do_GET: a request reaches the listening server
CallbackRequest(has_code) ==
    /\ token_manager.server = "listening"
    /\ token_manager' =
          IF has_code
          THEN [token_manager EXCEPT !.authorization_code = "code",
                                     !.server_closed = TRUE]
          ELSE token_manager
    /\ UNCHANGED <<google_ads_yaml, token_status>>
    /\ ManagerFrame

\* start_oauth_callback_server after server_closed.wait(timeout=300): the
\* event was set or the five minutes are over; the server is shut down
ServerShutdown ==
    /\ token_manager.pc = "serving"
    /\ token_manager' = [token_manager EXCEPT !.pc = "open_url",
                                              !.server = "closed"]
    /\ UNCHANGED <<google_ads_yaml, token_status>>
    /\ ManagerFrame

\* generate_new_refresh_token: webbrowser.open(auth_url)
OpenAuthorizationUrl ==
    /\ token_manager.pc = "open_url"
    /\ token_manager' = [token_manager EXCEPT !.pc = "waiting",
                                              !.url_opened = TRUE]
    /\ UNCHANGED <<google_ads_yaml, token_status>>
    /\ ManagerFrame

\* generate_new_refresh_token from the end of its wait loop, and the rest of
\* verify_ads_token; exchange is what exchange_code_for_tokens meets
FinishVerifyAdsToken(exchange, refresh_token) ==
    /\ token_manager.pc = "waiting"
    /\ IF token_manager.authorization_code # "None" /\ exchange = "ok"
       THEN /\ google_ads_yaml' = refresh_token
            /\ token_status' = [last_check |-> "recent", failed_checks |-> 0]
            /\ token_manager' = [token_manager EXCEPT !.pc = "done",
                                                      !.ret = "True"]
       ELSE /\ UNCHANGED <<google_ads_yaml, token_status>>
            /\ token_manager' = [token_manager EXCEPT !.pc = "done",
                                                      !.ret = "False"]
    /\ ManagerFrame

\* an hour passes since the last check
HourPasses ==
    /\ token_status.last_check = "recent"
    /\ token_status' = [token_status EXCEPT !.last_check = "old"]
    /\ UNCHANGED <<google_ads_yaml, token_manager>>
    /\ ManagerFrame

\* the token scripts run against any credential files an earlier run left
TokenInit ==
    /\ EngineInit
    /\ ALLOW_MOCK_DATA = FALSE
    /\ USE_REAL_ADS_CLIENT = TRUE
    /\ ENVIRONMENT = "production"
    /\ ALLOW_MOCK_AUTH = FALSE
    /\ session = NewSession
    /\ request = NoRequest
    /\ response = NoResponse
    /\ TOKENS = {}
    /\ token_file \in {NoTokenFile} \cup
                       {[OldTokenFile EXCEPT !.expiry = e] : e \in Expiries}
    /\ google_ads_yaml \in {"absent", "empty", "r0"}
    /\ authCall = NoAuthCall
    /\ token_status = NoTokenStatus
    /\ token_manager = IdleManager
    /\ refreshCall = NoRefreshCall

TokenNext ==
    \/ \E force \in BOOLEAN, refresh \in {"ok", "fail"}, secrets \in BOOLEAN,
          flow \in {"ok", "fail"}, r \in RefreshTokens \ {"None"} :
          RefreshTokenIfNeeded(force, refresh, secrets, flow, r)
    \/ TokenAges
    \/ \E force \in BOOLEAN, access \in {"ok", "fail"}, config \in BOOLEAN,
          port \in BOOLEAN : VerifyAdsToken(force, access, config, port)
    \/ \E has_code \in BOOLEAN : CallbackRequest(has_code)
    \/ ServerShutdown
    \/ OpenAuthorizationUrl
    \/ \E x \in {"ok", "fail"}, r \in RefreshTokens \ {"None"} :
          FinishVerifyAdsToken(x, r)
    \/ HourPasses

SpecTokens == TokenInit /\ [][TokenNext]_vars

(***************************************************************************)
(* Properties of the OAuth routes, checked under SpecAuth.                 *)
(***************************************************************************)
IsCallbackStep == authCall'.route = "callback"

\* the steps a call of an authentication route took
StepsOf(call) == {call.steps[i] : i \in 1..Len(call.steps)}

\* C12: the callback stores a token in TOKENS, sets the session's user_id and
\* writes token.json only when the request carries a code (and no mock flag),
\* the session holds client_config and the request's state equals the
\* session's auth_state; every other callback, and one whose token exchange
\* fails, leaves TOKENS, the session's user_id and the token file unchanged
C12_CallbackStoresOnlyWhenVerified ==
    [][IsCallbackStep =>
         LET accepted == /\ ~authCall'.mock
                         /\ authCall'.code # "None"
                         /\ session.client_config
                         /\ authCall'.state = session.auth_state
             failed   == authCall'.exchange \in {"scope_changed_fail", "fail"}
             stores   == StepsOf(authCall') \cap
                            {"write_token_file", "store_token", "set_session"} # {}
         IN /\ stores => accepted /\ ~failed
            /\ (~accepted \/ failed) =>
                  /\ TOKENS' = TOKENS
                  /\ session'.user_id = session.user_id
                  /\ token_file' = token_file]_vars

\* a verified callback has stored the token, and the session is authenticated
C12_Witness ==
    /\ authCall.route = "callback"
    /\ "store_token" \in StepsOf(authCall)
    /\ session.user_id \in OAuthUsers
    /\ session.user_id \in TOKENS
    /\ token_file.exists
    /\ token_file.refresh_token \in RefreshTokens

C16_DashboardRequiresAuth ==
    [][(/\ authCall'.route \in {"ads_dashboard", "ads_dashboard_page"}
        /\ session.user_id = "None"
        /\ ~(ENVIRONMENT = "development" /\ ALLOW_MOCK_AUTH))
         => /\ response'.kind = "redirect:/api/auth/login"
            /\ session'.user_id = "None"]_vars

(***************************************************************************)
(* Properties of the data endpoints, checked under SpecAds.                *)
(***************************************************************************)
DataEndpoints ==
    {"ads_performance", "get_performance", "get_campaigns", "get_ad_groups",
     "get_search_terms", "get_keywords", "get_ads"}

\* C17: a request to a /api/google-ads/* data endpoint with neither a Bearer
\* Authorization header nor an authenticated session is answered 401, without
\* data
C17_DataEndpointsRequireAuth ==
    (/\ response.endpoint \in DataEndpoints
     /\ request.auth = "none"
     /\ session.user_id = "None")
       => /\ response.status = 401
          /\ response.kind = "unauthorized"

(***************************************************************************)
(* Properties of interleaved process_event calls, checked under SpecAsync. *)
(***************************************************************************)
\* C14: whatever the interleaving of two process_event coroutines for the
\* same user at their awaits, a record that is unlocked stays unlocked (one
\* locked-to-unlocked transition at most) and unlocked_count grows by one
\* exactly in the step that unlocks the record
C14_UnlockedOnceUnderInterleaving ==
    [][\A u \in Users, a \in AchIds :
         LET was == UnlockedIn(user_achievements, u, a)
             is  == UnlockedIn(user_achievements', u, a)
         IN /\ was => is
            /\ unlocked_count'[a] =
                  unlocked_count[a] + (IF ~was /\ is THEN 1 ELSE 0)
            /\ unlocked_count'[a] = (IF is THEN 1 ELSE 0)]_vars

\* one coroutine has unlocked the record while the other, which looked the
\* record up before, stands between its evaluate and its update with a value
\* that reaches the target
C14_Witness ==
    \E t \in TaskIds, a \in AchIds :
       /\ tasks[t].pc = "update"
       /\ achievements[tasks[t].idx] = a
       /\ ~tasks[t].looked_up.unlocked
       /\ TargetReached(tasks[t].current_value, AchDef(a).target_value)
       /\ UnlockedIn(user_achievements, tasks[t].user_id, a)
       /\ unlocked_count[a] = 1

(***************************************************************************)
(* Properties of the user summary, checked under SpecSummary.              *)
(***************************************************************************)
\* C15: a summary asked with include_hidden = false counts and lists only
\* achievements that are not hidden: unlocked_achievements is the number of
\* the user's unlocked records of visible achievements, and recent_unlocks
\* holds no hidden achievement
C15_SummaryLeavesOutHidden ==
    (lastCall.op = "get_user_achievement_summary" /\ ~lastCall.ret.include_hidden)
       => /\ \A a \in lastCall.ret.recent_unlocks : ~AchDef(a).hidden
          /\ lastCall.ret.unlocked_achievements =
                Cardinality({a \in AchIds :
                               /\ UnlockedIn(user_achievements, lastCall.user_id, a)
                               /\ ~AchDef(a).hidden})

(***************************************************************************)
(* Properties of the token scripts, checked under SpecTokens.              *)
(***************************************************************************)
IsRefreshCall == refreshCall'.n # refreshCall.n

IsVerifyCall == token_manager'.n # token_manager.n

\* C18: when token.json exists and its expiry is missing, unparsable, past or
\* less than ten minutes ahead, a refresh_token_if_needed(force=False) that
\* returns True has rewritten the token file with a new token
C18_ExpiredTokenIsRefreshed ==
    [][(/\ IsRefreshCall
        /\ ~refreshCall'.force
        /\ token_file.exists
        /\ token_file.expiry \in {"missing", "unparsable", "expired", "expiring"}
        /\ refreshCall'.ret = "True")
         => /\ "write_token_file" \in StepsOf(refreshCall')
            /\ token_file'.token # token_file.token]_vars

\* C19: verify_ads_token(force_refresh=False) starts the OAuth flow, and
\* google-ads.yaml gets a new refresh_token, only when no refresh token was
\* configured or the access test failed; when a refresh token is configured
\* and the access test succeeds, or the last check is less than an hour old
\* with failed_checks = 0, it returns True, starts no flow and leaves
\* google-ads.yaml as it is
C19_ReplacesOnlyInvalidTokens ==
    [][/\ (IsVerifyCall /\ ~token_manager'.force
             /\ token_manager'.server = "listening")
          => \/ google_ads_yaml \in {"absent", "empty"}
             \/ token_manager'.access = "fail"
       /\ (token_manager.pc = "waiting" /\ ~token_manager.force
             /\ google_ads_yaml' # google_ads_yaml)
          => /\ token_manager.url_opened
             /\ \/ ~token_manager.had_refresh_token
                \/ token_manager.access = "fail"
       /\ (IsVerifyCall /\ ~token_manager'.force
             /\ google_ads_yaml \notin {"absent", "empty"}
             /\ \/ token_manager'.access = "ok"
                \/ token_status.last_check = "recent"
                      /\ token_status.failed_checks = 0)
          => /\ token_manager'.ret = "True"
             /\ token_manager'.server = "down"
             /\ google_ads_yaml' = google_ads_yaml]_vars

\* a failed access test was followed by the flow and a new refresh token in
\* google-ads.yaml
C19_Witness ==
    /\ token_manager.pc = "done"
    /\ token_manager.ret = "True"
    /\ ~token_manager.force
    /\ token_manager.had_refresh_token
    /\ token_manager.access = "fail"
    /\ token_manager.url_opened
    /\ google_ads_yaml \in RefreshTokens \ {"None"}

\* C20: in generate_new_refresh_token the callback server is not shut down
\* before the authorization URL has been opened, and it listens when the URL
\* is opened
C20_ServerListensWhileAuthorizing ==
    [][/\ (token_manager.server = "listening" /\ token_manager'.server = "closed")
          => token_manager.url_opened
       /\ (~token_manager.url_opened /\ token_manager'.url_opened)
          => token_manager'.server = "listening"]_vars

(***************************************************************************)
(* Streak evaluation per period.                                           *)
(***************************************************************************)
\* the periods the events of the model carry as current_period
CurrentPeriods == {c.current_period : c \in Contexts} \ {Missing}

\* the criteria's streak counter of a user, 0 before the first evaluation
StreakOf(streaks, criteria_id, user_id) == Get(streaks[criteria_id], user_id, 0)

\* C21: a budget streak is evaluated once per period: over events that all
\* carry the same current_period, the streak counter of a user and a streak
\* criteria changes at most once, by one increment or one reset, whatever
\* last_checked_period the events carry.  Every event of the model that
\* carries a period carries the same one and the counter starts at 0, so a
\* counter that changed at most once is 0 or 1.
C21_StreakChangesOncePerPeriod ==
    Cardinality(CurrentPeriods) = 1 =>
       \A c \in StreakCriteria, u \in Users : StreakOf(user_streaks, c, u) <= 1

(***************************************************************************)
(* The scheduler's daily job (engine.py, _periodic_update).                *)
(***************************************************************************)
\* engine.py binds the name datetime to the class datetime.datetime
\* ("from datetime import datetime"); the attributes of that class the job uses
DatetimeClassAttributes == {"now", "replace", "strftime"}

\* the context dict the job builds for a user; evaluating
\* datetime.timedelta(days=1) raises AttributeError when the class has no
\* such attribute
PeriodicContext ==
    IF "timedelta" \in DatetimeClassAttributes
    THEN [raised |-> FALSE,
          context |-> Context(Missing, "2025-02", "2025-01", MissingNum, MissingNum)]
    ELSE [raised |-> TRUE, context |-> BaseContext]

\* the loop of _periodic_update over user_achievements.keys(): builds the
\* context, then awaits process_event; an exception leaves the loop for the
\* except clause of the job.  issued collects the users process_event was
\* called for.
RECURSIVE periodic_loop(_, _, _, _)
periodic_loop(S, users, issued, macosOk) ==
    IF users = {} THEN [S |-> S, issued |-> issued, raised |-> FALSE]
    ELSE LET user_id == CHOOSE u \in users : TRUE IN
         IF PeriodicContext.raised
         THEN [S |-> S, issued |-> issued, raised |-> TRUE]
         ELSE LetIn(process_loop(S, achievements, user_id, "periodic_update",
                                 PeriodicContext.context, clock, notifier, macosOk),
                    LAMBDA S1 :
                       periodic_loop([S1 EXCEPT !.raised = FALSE],
                                     users \ {user_id}, issued \cup {user_id},
                                     macosOk))

\* AchievementEngine._periodic_update, one run of the scheduled job
PeriodicUpdate(macosOk) ==
    /\ \E r \in {periodic_loop(CallState, DOMAIN user_achievements, {}, macosOk)} :
       /\ user_achievements' = r.S.ua
       /\ user_streaks' = r.S.streaks
       /\ unlocked_count' = r.S.ucount
       /\ user_points' = r.S.points
       /\ user_badges' = r.S.badges
       /\ user_features' = r.S.features
       /\ rewardCalls' = r.S.calls
       /\ progress_file' = r.S.progress_file
       /\ achievements_file' =
             IF r.issued = {} THEN achievements_file
             ELSE [order |-> achievements, unlocked_count |-> r.S.ucount]
       /\ lastCall' = [OpTrace("_periodic_update", r.issued) EXCEPT
                          !.raised = r.raised,
                          !.evaluated = r.S.evaluated,
                          !.skipped = r.S.skipped]
    /\ UNCHANGED <<achievements, notifier, clock, eventCount>>
    /\ UNCHANGED <<tasks, adsVars, authVars, tokenVars>>

\* the engine with its scheduler started: events, resets and the daily job
PeriodicNext ==
    \/ Next
    \/ \E ok \in BOOLEAN : PeriodicUpdate(ok)

SpecPeriodic == Init /\ [][PeriodicNext]_vars

\* C22: each run of the daily _periodic_update issues one process_event of
\* type periodic_update for every user that has achievement data, so that the
\* hidden achievements are evaluated for each of those users: after a run,
\* the users process_event was called for are the users with records, and
\* with such a user no registered hidden achievement was left unevaluated.
C22_PeriodicUpdateReachesEveryUser ==
    lastCall.op = "_periodic_update" =>
       /\ lastCall.ret = DOMAIN user_achievements
       /\ DOMAIN user_achievements # {} =>
             \A a \in Registered : AchDef(a).hidden => a \in lastCall.evaluated

\* the step is a direct call of get_ads_performance
PerformanceEndpoints ==
    {"get_ads_performance", "get_ads_performance(previous_period=True)"}

\* C23: whenever the Google Ads query succeeds, with zero rows or zero totals
\* included and with or without previous_period, get_ads_performance returns
\* all seven metrics, each with a value and a change, so that the result
\* passes the validation of get_ads_performance_with_fallback and is not
\* replaced by an error or by mock data.
C23_SuccessfulQueryGivesSevenMetrics ==
    /\ response.endpoint \in PerformanceEndpoints /\ request.api \in SuccessfulQueries
          => /\ response.kind = "dict"
             /\ RequiredMetrics \subseteq response.metrics
    /\ response.endpoint = "get_ads_performance_with_fallback"
         /\ request.api \in SuccessfulQueries
          => response.kind = "real"

(***************************************************************************)
(* Resets, checked with two users' records side by side.                   *)
(***************************************************************************)
\* the event data of these runs: budgets under and over their limits, and none
ResetContexts ==
    {c \in Contexts : c.budgets # Malformed /\ c.transactions # MissingNum}
       \cup {BaseContext}

\* the achievement_id arguments of these runs: two ids the users have records
\* for, one they have none for, and no id
ResetIds == {"budget_master_silver", "savings_gold", "account_linked", "None"}

\* events and resets for two users
ResetNext ==
    \/ \E u \in AllUsers, c \in ResetContexts :
          ProcessEvent(u, "budget_update", c, TRUE)
    \/ \E u \in AllUsers, a \in ResetIds : ResetAchievementProgress(u, a)

SpecReset == Init /\ [][ResetNext]_vars

\* the step is one call of reset_achievement_progress (under SpecReset every
\* step that is no event is one)
IsResetStep ==
    /\ lastCall'.op = "reset_achievement_progress"
    /\ eventCount' = eventCount

\* C24: reset_achievement_progress(user, achievement_id) resets only that
\* record (current_value 0, unlocked False, first_achieved_at None, empty
\* history) and leaves every other record of the user and all records of
\* other users unchanged; for a user with no records it returns False and
\* changes nothing.
C24_ResetTouchesOneRecord ==
    [][IsResetStep /\ lastCall'.achievement_id # "None" =>
         IF lastCall'.user_id \notin DOMAIN user_achievements
         THEN /\ lastCall'.ret = FALSE
              /\ UNCHANGED <<user_achievements, progress_file, user_streaks,
                             unlocked_count, user_points, user_badges,
                             user_features>>
         ELSE /\ lastCall'.ret = TRUE
              /\ DOMAIN user_achievements' = DOMAIN user_achievements
              /\ \A u \in DOMAIN user_achievements :
                    /\ DOMAIN user_achievements'[u] = DOMAIN user_achievements[u]
                    /\ \A a \in DOMAIN user_achievements[u] :
                          user_achievements'[u][a] =
                             IF u = lastCall'.user_id /\ a = lastCall'.achievement_id
                             THEN [current_value |-> 0, unlocked |-> FALSE,
                                   first_achieved_at |-> NoneTime,
                                   progress_history |-> <<>>]
                             ELSE user_achievements[u][a]]_vars

\* a record of u1 was reset while another record of u1 and the records of u2
\* hold progress
C24_Witness ==
    /\ lastCall.op = "reset_achievement_progress"
    /\ lastCall.user_id = "u1"
    /\ lastCall.achievement_id = "savings_gold"
    /\ lastCall.ret = TRUE
    /\ user_achievements["u1"]["savings_gold"] = NewUserAchievement
    /\ ValueIn(user_achievements, "u1", "budget_master_silver") > 0
    /\ ValueIn(user_achievements, "u2", "savings_gold") > 0

\* the event evaluated a qualifying period for achievement a: the streak
\* criteria counted the period and answered with a streak above zero
QualifyingPeriod(call, a) ==
    /\ a \in DOMAIN call.values
    /\ a \notin call.no_update
    /\ \A e \in call.errors : e[1] # a
    /\ call.values[a] > 0

\* C25: after reset_achievement_progress on a streak achievement, progress
\* restarts from zero: the user's next qualifying period produces a stored
\* streak of 1, not the pre-reset streak plus one.
C25_StreakRestartsAfterReset ==
    [][\A a \in AchIds :
         /\ IsEventStep
         /\ lastCall.op = "reset_achievement_progress"
         /\ lastCall.ret = TRUE
         /\ lastCall.achievement_id = a
         /\ AchDef(a).progress_type = "streak"
         /\ lastCall'.user_id = lastCall.user_id
         /\ QualifyingPeriod(lastCall', a)
         => ValueIn(user_achievements', lastCall.user_id, a) = 1]_vars
====
